---- MODULE Spec2Model ----
(***************************************************************************)
(* Model of web-audio-analyzer: analyzeAudioBuffer (src/src/analyzer.ts)   *)
(* and transformToImpulseResponse (src/src/transformer.ts).                *)
(*                                                                         *)
(* Numbers.  JavaScript numbers are modelled in fixed point:               *)
(*   samples            1/100   (1.0 = Unit)                               *)
(*   squared samples    1/10000                                            *)
(*   RMS values         1/1000  (1.0 = 1000)                               *)
(*   decibels           1/10 dB for the envelope, 1/100 dB for turbulence  *)
(*   seconds            1/1000  (milliseconds)                             *)
(* Comparisons against fractional constants (0.05, 0.001, 1.55, 0.0001)    *)
(* are cross-multiplied so that they are exact on the fixed-point values.  *)
(* NaN and -Infinity are the two values named below.                      *)
(*                                                                         *)
(* Waveforms.  A Float32Array is a sequence of runs [pat, n]: n samples    *)
(* that repeat the pattern pat (a run of a constant is a pattern of length *)
(* one).  Sums over samples are taken run by run.                          *)
(***************************************************************************)
EXTENDS Integers, Sequences, FiniteSets, TLC

VARIABLES pc, buffer, result, thrown, payload, probe, call, ret

vars == <<pc, buffer, result, thrown, payload, probe, call, ret>>

-----------------------------------------------------------------------------
(* Bounds of the model *)

MaxCells == 7
Amp == 2
StereoCells == 4
MaxLen == 3
MaxTarget == 4
MaxPeaks == 6
MaxFrames == 5
MaxEnvelope == 7
MaxFft == 4

-----------------------------------------------------------------------------
(* Fixed point *)

Unit == 100
\* NaN and -Infinity: values no sample, RMS or dB value takes
NaN == -2000000001
NegInf == -2000000000

Abs(x) == IF x < 0 THEN -x ELSE x
Max2(a, b) == IF a > b THEN a ELSE b
Min2(a, b) == IF a < b THEN a ELSE b

RECURSIVE SqrtSearch(_, _, _)
SqrtSearch(m, lo, hi) ==
    IF hi - lo <= 1 THEN lo
    ELSE LET mid == (lo + hi) \div 2
         IN IF mid * mid <= m THEN SqrtSearch(m, mid, hi)
            ELSE SqrtSearch(m, lo, mid)

\* Math.sqrt on a non-negative fixed-point value (floor); m < 46341^2
Sqrt(m) == SqrtSearch(m, 0, 46341)

\* floor(log2(v)) for v >= 1
RECURSIVE ILog2(_)
ILog2(v) == IF v < 2 THEN 0 ELSE 1 + ILog2(v \div 2)

RECURSIVE Pow2(_)
Pow2(k) == IF k = 0 THEN 1 ELSE 2 * Pow2(k - 1)

\* fractional bits of log2 by repeated squaring; x is the mantissa in
\* [4096, 8192), the result has `bits` binary digits
RECURSIVE Log2Frac(_, _)
Log2Frac(x, bits) ==
    IF bits = 0 THEN 0
    ELSE LET sq == (x * x) \div 4096
         IN IF sq >= 8192
            THEN Pow2(bits - 1) + Log2Frac(sq \div 2, bits - 1)
            ELSE Log2Frac(sq, bits - 1)

\* 20 * Math.log10(v / 1000) in tenths of a dB, for v >= 1
Log10Db(v) ==
    LET e == ILog2(v)
        mant == (v * 4096) \div Pow2(e)
        l2 == e * 1024 + Log2Frac(mant, 10)
    IN ((l2 * 60206 + 512000) \div 1024000) - 600

-----------------------------------------------------------------------------
(* Float32Array as runs *)

RECURSIVE Length(_)
Length(w) == IF w = <<>> THEN 0 ELSE Head(w).n + Length(Tail(w))

\* the samples of a run that are actually present
RunSamples(r) == { r.pat[k] : k \in 1..Min2(Len(r.pat), r.n) }

RECURSIVE SeqSumSq(_)
SeqSumSq(s) == IF s = <<>> THEN 0 ELSE Head(s) * Head(s) + SeqSumSq(Tail(s))

RECURSIVE PatPartSq(_, _, _)
PatPartSq(pat, j0, cnt) ==
    IF cnt = 0 THEN 0
    ELSE LET x == pat[(j0 % Len(pat)) + 1]
         IN x * x + PatPartSq(pat, j0 + 1, cnt - 1)

\* sum of squares of cnt samples of a run starting at its sample j0
RunSumSq(r, j0, cnt) ==
    LET L == Len(r.pat)
    IN (cnt \div L) * SeqSumSq(r.pat) + PatPartSq(r.pat, j0, cnt % L)

\* sum of data[i]^2 for from <= i < from + cnt; off is the index of the
\* first sample of w
RECURSIVE SumSq(_, _, _, _)
SumSq(w, off, from, cnt) ==
    IF w = <<>> \/ cnt <= 0 THEN 0
    ELSE LET r == Head(w)
             lo == Max2(from, off)
             hi == Min2(from + cnt, off + r.n)
         IN (IF hi > lo THEN RunSumSq(r, lo - off, hi - lo) ELSE 0)
            + (IF from + cnt > off + r.n
               THEN SumSq(Tail(w), off + r.n, from, cnt)
               ELSE 0)

-----------------------------------------------------------------------------
(* analyzer.ts: helpers *)

HopLength == 512
FrameLength == 2048
NFft == 2048
EnvelopePoints == 500

\* mono[i] = (ch0[i] + ch1[i]) / 2 on two channels with the same runs
MixRuns(ch0, ch1) ==
    [i \in 1..Len(ch0) |->
        [pat |-> [k \in 1..Len(ch0[i].pat) |->
                     (ch0[i].pat[k] + ch1[i].pat[k]) \div 2],
         n |-> ch0[i].n]]

getMonoData(b) ==
    IF b.numberOfChannels = 1 THEN b.channels[1]
    ELSE MixRuns(b.channels[1], b.channels[2])

\* the maximum of Math.abs(data[i]), 0 for an empty array
MaxAbs(data) ==
    LET all == UNION { { Abs(x) : x \in RunSamples(data[i]) } :
                       i \in { j \in 1..Len(data) : data[j].n > 0 } }
    IN IF all = {} THEN 0 ELSE CHOOSE m \in all : \A x \in all : x <= m

DivSample(x, max) ==
    IF x >= 0 THEN (x * Unit) \div max ELSE -(((-x) * Unit) \div max)

normalizeNoScaling(data) == data
normalize(data) ==
    LET max == MaxAbs(data)
    IN IF max = 0 THEN data
       ELSE [i \in 1..Len(data) |->
                [pat |-> [k \in 1..Len(data[i].pat) |->
                             DivSample(data[i].pat[k], max)],
                 n |-> data[i].n]]

\* sum / len in 1/1000000, without leaving 32 bits
MeanSq(sum, len) == (sum \div len) * 100 + ((sum % len) * 100) \div len

computeRMS(data) ==
    LET len == Length(data)
    IN IF len = 0 THEN NaN
       ELSE Sqrt(MeanSq(SumSq(data, 0, 0, len), len))

-----------------------------------------------------------------------------
(* analyzer.ts: computeEnvelopeFeatures *)

\* the iterations k (i = k * hopLength) of the loop
\*   for (i = 0; i + frameLength <= data.length; i += hopLength)
FrameStartsStrict(len) ==
    { k \in 0..(len \div HopLength) : k * HopLength + FrameLength < len }
FrameStarts(len) ==
    { k \in 0..(len \div HopLength) : k * HopLength + FrameLength <= len }

\* rmsEnvelope: one Math.sqrt(sum / frameLength) per iteration
RmsFrames(data, len) ==
    [f \in 1..Cardinality(FrameStarts(len)) |->
        Sqrt(MeanSq(SumSq(data, 0, (f - 1) * HopLength, FrameLength),
                    FrameLength))]

\* Math.ceil((50 / 1000) * (sr / hopLength)), sr > 0
DistanceFrames(sr) == (50 * sr + 1000 * HopLength - 1) \div (1000 * HopLength)

\* Math.max(...rmsEnvelope)
MaxOf(env) ==
    IF env = <<>> THEN NegInf
    ELSE CHOOSE m \in { env[k] : k \in 1..Len(env) } :
            \A k \in 1..Len(env) : env[k] <= m

\* Math.max(maxVal * 0.05, 0.0001), times 100000
FinalThreshold(maxVal) ==
    IF maxVal = NegInf THEN 10 ELSE Max2(maxVal * 5, 10)

AboveThreshold(v, thr) == v * 100 > thr

\* v > minSinceLastPeak * 1.55 + 0.001
ProminentBy20Percent(v, minSinceLastPeak) == v * 100 > minSinceLastPeak * 120
Prominent(v, minSinceLastPeak) == v * 100 > minSinceLastPeak * 155 + 100

\* i - lastPeakIdx >= distanceFrames
SpacingOkNoCheck(i, lastPeakIdx, distanceFrames) == TRUE
SpacingOk(i, lastPeakIdx, distanceFrames) == i - lastPeakIdx >= distanceFrames

\* the "Check Index 0" block: v0 > finalThreshold && v0 >= v1
FirstFramePeakNoThreshold(v0, v1, thr) == v0 >= v1
FirstFramePeak(v0, v1, thr) == AboveThreshold(v0, thr) /\ v0 >= v1

\* peaks, lastPeakIdx, minSinceLastPeak after the index-0 block; `accepted`
\* records the indices at which peaks++ ran
PeakInit(env, maxVal, thr, distanceFrames) ==
    LET st0 == [peaks |-> 0, lastPeakIdx |-> -distanceFrames,
                minSinceLastPeak |-> maxVal, accepted |-> <<>>]
    IN IF Len(env) > 0
       THEN LET v0 == env[1]
                v1 == IF Len(env) > 1 THEN env[2] ELSE 0
            IN IF FirstFramePeak(v0, v1, thr)
               THEN [peaks |-> 1, lastPeakIdx |-> 0,
                     minSinceLastPeak |-> v0, accepted |-> <<0>>]
               ELSE [st0 EXCEPT !.minSinceLastPeak = v0]
       ELSE st0

\* one iteration of  for (i = 1; i < rmsEnvelope.length - 1; i++)
PeakStep(env, i, st, thr, distanceFrames) ==
    LET v == env[i + 1]
        prev == env[i]
        next == env[i + 2]
        valley == IF v < st.minSinceLastPeak THEN v ELSE st.minSinceLastPeak
        isLocalMax == AboveThreshold(v, thr) /\ v >= prev /\ v > next
    IN IF isLocalMax
          /\ SpacingOk(i, st.lastPeakIdx, distanceFrames)
          /\ Prominent(v, valley)
       THEN [peaks |-> st.peaks + 1, lastPeakIdx |-> i,
             minSinceLastPeak |-> v, accepted |-> Append(st.accepted, i)]
       ELSE [st EXCEPT !.minSinceLastPeak = valley]

\* the iterations lo <= i < hi of the loop, in order (the test on left.peaks
\* is always true: it makes TLC finish the left half before the right one)
RECURSIVE ScanRange(_, _, _, _, _, _)
ScanRange(env, lo, hi, st, thr, distanceFrames) ==
    IF hi <= lo THEN st
    ELSE IF hi = lo + 1 THEN PeakStep(env, lo, st, thr, distanceFrames)
    ELSE LET mid == (lo + hi) \div 2
             left == ScanRange(env, lo, mid, st, thr, distanceFrames)
         IN IF left.peaks >= 0
            THEN ScanRange(env, mid, hi, left, thr, distanceFrames)
            ELSE left

\* for (i = 1; i < rmsEnvelope.length - 1; i++)
PeakScan(env, st, thr, distanceFrames) ==
    ScanRange(env, 1, Len(env) - 1, st, thr, distanceFrames)

\* rmsEnvelope[i] > maxVal * 0.001
AboveDecayOrEqual(v, maxVal) == v * 1000 >= maxVal
AboveDecay(v, maxVal) == v * 1000 > maxVal

\* the last frame above the decay threshold, 0 when there is none
LastHighFrameFirst(env, maxVal) ==
    LET high == { i \in 0..(Len(env) - 1) : AboveDecay(env[i + 1], maxVal) }
    IN IF high = {} THEN 0 ELSE CHOOSE i \in high : \A j \in high : i <= j

LastHighFrame(env, maxVal) ==
    LET high == { i \in 0..(Len(env) - 1) : AboveDecay(env[i + 1], maxVal) }
    IN IF high = {} THEN 0 ELSE CHOOSE i \in high : \A j \in high : j <= i

\* (lastHighFrame * hopLength) / sr, in milliseconds
DecayTime(lastHighFrame, sr) == (lastHighFrame * HopLength * 1000) \div sr

-----------------------------------------------------------------------------
(* analyzer.ts: computeTurbulence and resampleArray *)

\* 20 * Math.log10(Math.max(v, 1e-5)) in tenths of a dB
ToDb(v) == IF v = 0 THEN -1000 ELSE Log10Db(v)

\* the first index of the largest dB value, 0 for an empty envelope
PeakIdx(dbEnv) ==
    IF dbEnv = <<>> THEN 0
    ELSE CHOOSE i \in 0..(Len(dbEnv) - 1) :
            /\ \A j \in 0..(Len(dbEnv) - 1) : dbEnv[j + 1] <= dbEnv[i + 1]
            /\ \A j \in 0..(i - 1) : dbEnv[j + 1] < dbEnv[i + 1]

\* for (i = peakIdx; i < limit; i++) decaySlice.push(dbEnv[i])
DecaySliceToEnd(dbEnv, peakIdx, endFrameIdx) ==
    LET limit == Min2(endFrameIdx, Len(dbEnv))
    IN [k \in 1..Max2(limit - peakIdx, 0) |-> dbEnv[peakIdx + k]]

DecaySlice(dbEnv, peakIdx, endFrameIdx) ==
    LET actualEnd == Max2(endFrameIdx, peakIdx + 5)
        limit == Min2(actualEnd, Len(dbEnv))
    IN [k \in 1..Max2(limit - peakIdx, 0) |-> dbEnv[peakIdx + k]]

\* f[i + 1] + ... + f[n]
RECURSIVE SumOver(_, _, _)
SumOver(f, i, n) ==
    IF i >= n THEN 0
    ELSE IF n = i + 1 THEN f[n]
    ELSE LET mid == (i + n) \div 2
         IN SumOver(f, i, mid) + SumOver(f, mid, n)

\* a / b rounded to the nearest integer, b > 0
DivRound(a, b) == (2 * a + b) \div (2 * b)

\* the least-squares line through (i, decaySlice[i]) and the root of the mean
\* squared residual, in hundredths of a dB; the slope and the intercept are
\* kept in thousandths of a dB
Regression(decaySlice) ==
    LET n == Len(decaySlice)
        sumX == SumOver([k \in 1..n |-> k - 1], 0, n)
        sumY == SumOver(decaySlice, 0, n)
        sumXY == SumOver([k \in 1..n |-> (k - 1) * decaySlice[k]], 0, n)
        sumX2 == SumOver([k \in 1..n |-> (k - 1) * (k - 1)], 0, n)
        num == n * sumXY - sumX * sumY
        den == n * sumX2 - sumX * sumX
        slope == (num \div den) * 100 + ((num % den) * 100) \div den
        intercept == (sumY * 100 - slope * sumX) \div n
        err == [k \in 1..n |->
                   DivRound(decaySlice[k] * 100
                            - (slope * (k - 1) + intercept), 100)]
        mse == SumOver([k \in 1..n |-> err[k] * err[k]], 0, n)
    IN Sqrt((mse \div n) * 100 + ((mse % n) * 100) \div n)

computeTurbulence(envelope, endFrameIdx) ==
    LET dbEnv == [k \in 1..Len(envelope) |-> ToDb(envelope[k])]
        decaySlice == DecaySlice(dbEnv, PeakIdx(dbEnv), endFrameIdx)
    IN IF Len(decaySlice) < 5 THEN 0 ELSE Regression(decaySlice)

\* output[i] for 0 <= i < targetLength when input is neither empty nor of
\* the target length; idx = i * (input.length - 1) / (targetLength - 1)
ResamplePoint(input, targetLength, i) ==
    LET num == i * (Len(input) - 1)
        den == targetLength - 1
    IN IF den = 0 THEN NaN
       ELSE LET lower == num \div den
                rem == num % den
                upper == IF rem = 0 THEN lower ELSE lower + 1
            IN IF upper >= Len(input) THEN input[Len(input)]
               ELSE (input[lower + 1] * (den - rem) + input[upper + 1] * rem)
                    \div den

resampleArrayKeepsEmpty(input, targetLength) ==
    IF Len(input) = targetLength \/ Len(input) = 0 THEN input
    ELSE [i \in 1..targetLength |-> ResamplePoint(input, targetLength, i - 1)]

resampleArray(input, targetLength) ==
    IF Len(input) = 0 THEN [i \in 1..targetLength |-> 0]
    ELSE IF Len(input) = targetLength THEN input
    ELSE [i \in 1..targetLength |-> ResamplePoint(input, targetLength, i - 1)]

\* computeEnvelopeFeatures; the fields after turbulence are locals of the
\* function, kept for the properties that speak about them
computeEnvelopeFeatures(data, sr) ==
    LET rmsEnvelope == RmsFrames(data, Length(data))
        distanceFrames == DistanceFrames(sr)
        maxVal == MaxOf(rmsEnvelope)
        finalThreshold == FinalThreshold(maxVal)
        scan == PeakScan(rmsEnvelope,
                         PeakInit(rmsEnvelope, maxVal, finalThreshold,
                                  distanceFrames),
                         finalThreshold, distanceFrames)
        lastHighFrame == LastHighFrame(rmsEnvelope, maxVal)
    IN [envelopeVector |-> resampleArray(rmsEnvelope, EnvelopePoints),
        peakCount |-> scan.peaks,
        decayTime |-> DecayTime(lastHighFrame, sr),
        turbulence |-> computeTurbulence(rmsEnvelope, lastHighFrame),
        rmsEnvelope |-> rmsEnvelope,
        distanceFrames |-> distanceFrames,
        accepted |-> scan.accepted,
        lastHighFrame |-> lastHighFrame]

-----------------------------------------------------------------------------
(* analyzer.ts: computeSpectralFeatures *)

\* frameCount: the number of iterations k (i = k * hopLength) of
\*   for (i = 0; i + nFft < data.length; i += hopLength)
SpectralFrames(len) ==
    Cardinality({ k \in 0..(len \div HopLength) : k * HopLength + NFft < len })

limits == <<0, 100, 500, 2000, 5000, 20000>>

\* `${minF}-${maxF}hz`
BandLabelNoUnit(minF, maxF) == ToString(minF) \o "-" \o ToString(maxF)
BandLabel(minF, maxF) == ToString(minF) \o "-" \o ToString(maxF) \o "hz"

\* count > 0: some bin k in 0..nFft/2 has minF <= k * sr / nFft < maxF;
\* the first bin at or above minF decides
BandHasBins(minF, maxF, sr) ==
    LET k == (minF * NFft + sr - 1) \div sr
    IN k <= NFft \div 2 /\ k * sr < maxF * NFft

\* What computeSpectrum (fft.ts) contributes is not computed: the averaged
\* spectrum is one of the profiles below, each giving the centroid (Hz), the
\* flatness (1/1000) and the mean band power in dB of the bands that hold
\* bins.  A signal that is zero over every analysed frame has the exact
\* profile Silent.
Silent == [centroid |-> 0, flatness |-> 1000,
           db |-> <<-100, -100, -100, -100, -100>>]

Profiles ==
    { [centroid |-> 600, flatness |-> 20, db |-> <<-10, -20, -40, -50, -60>>],
      [centroid |-> 3000, flatness |-> 300, db |-> <<0, -30, -20, -20, -30>>] }

SpectrumProfiles(data, frameCount) ==
    IF frameCount = 0 THEN {Silent}
    ELSE IF SumSq(data, 0, 0, (frameCount - 1) * HopLength + NFft) = 0
         THEN {Silent}
         ELSE Profiles

\* the bands loop: one entry per consecutive pair of limits
Bands(profile, sr) ==
    LET labels == { BandLabel(limits[i], limits[i + 1]) :
                    i \in 1..(Len(limits) - 1) }
        idx(l) == CHOOSE i \in 1..(Len(limits) - 1) :
                     BandLabel(limits[i], limits[i + 1]) = l
    IN [l \in labels |->
          IF BandHasBins(limits[idx(l)], limits[idx(l) + 1], sr)
          THEN profile.db[idx(l)] ELSE -100]

NoBands == [l \in {} |-> 0]

computeSpectralFeatures(data, sr, profile) ==
    LET frameCount == SpectralFrames(Length(data))
    IN IF frameCount = 0
       THEN [centroid |-> 0, flatness |-> 0, bands |-> NoBands,
             frameCount |-> 0]
       ELSE [centroid |-> profile.centroid, flatness |-> profile.flatness,
             bands |-> Bands(profile, sr), frameCount |-> frameCount]

-----------------------------------------------------------------------------
(* analyzer.ts: classify *)

\* bands[key] || dflt : an absent entry and an entry equal to 0 are falsy
BandOr(bands, key, dflt) ==
    IF key \in DOMAIN bands /\ bands[key] # 0 THEN bands[key] ELSE dflt

\* density > 4 with density = decayTime > 0 ? peakCount / decayTime : 0
IsHighDensityAboveOne(peakCount, decayTime) ==
    decayTime > 0 /\ peakCount * 1000 > decayTime
IsHighDensity(peakCount, decayTime) ==
    decayTime > 0 /\ peakCount * 1000 > 4 * decayTime

IsDelayEither(peakCount, isHighDensity) == peakCount > 1 \/ ~isHighDensity
IsDelay(peakCount, isHighDensity) == peakCount > 1 /\ ~isHighDensity

Duration(decayTime) ==
    IF decayTime < 1500 THEN "Short"
    ELSE IF decayTime < 5000 THEN "Medium" ELSE "Long"

CentroidBrightness(centroid) ==
    IF centroid < 100 THEN "Sub"
    ELSE IF centroid < 400 THEN "Very Low"
    ELSE IF centroid < 800 THEN "Low"
    ELSE IF centroid < 1200 THEN "Low-Mid"
    ELSE IF centroid < 2500 THEN "Mid"
    ELSE IF centroid < 4000 THEN "High-Mid"
    ELSE IF centroid < 6000 THEN "Bright"
    ELSE "Very Bright"

Brightness(centroid, bands) ==
    LET subDb == BandOr(bands, "0-100hz", -100)
        midDb == BandOr(bands, "500-2000hz", -100)
        b0 == CentroidBrightness(centroid)
        b1 == IF b0 = "Low" /\ subDb > midDb + 12 THEN "Very Low" ELSE b0
    IN IF b1 = "Very Low" /\ subDb > midDb + 24 THEN "Sub" ELSE b1

\* turbulence in hundredths of a dB
TextureSwapped(turbulence, isHighDensity) ==
    IF turbulence < 300 THEN "Smooth"
    ELSE IF turbulence < 400 THEN "Textured"
    ELSE IF turbulence < 500 THEN "Grainy"
    ELSE IF turbulence < 600 THEN "Coarse"
    ELSE IF isHighDensity THEN "Energetic" ELSE "Textured"

Texture(turbulence, isHighDensity) ==
    IF turbulence < 300 THEN "Smooth"
    ELSE IF turbulence < 400 THEN "Textured"
    ELSE IF turbulence < 500 THEN "Grainy"
    ELSE IF turbulence < 600 THEN "Coarse"
    ELSE IF isHighDensity THEN "Textured" ELSE "Energetic"

classify(peakCount, decayTime, centroid, turbulence, bands) ==
    LET isHighDensity == IsHighDensity(peakCount, decayTime)
    IN [type |-> IF IsDelay(peakCount, isHighDensity)
                 THEN "Delay" ELSE "Reverb",
        duration_category |-> Duration(decayTime),
        brightness_category |-> Brightness(centroid, bands),
        texture_category |-> Texture(turbulence, isHighDensity)]

-----------------------------------------------------------------------------
(* analyzer.ts: analyzeAudioBuffer *)

NoBuffer == [absent |-> "buffer"]
NoResult == [absent |-> "result"]
NoPayload == [absent |-> "payload"]
NoProbe == [absent |-> "probe"]
NoCall == [op |-> "none"]
NoRet == [absent |-> "ret"]
None == "none"

EmptyError == "Audio buffer is empty"

TwoDigits(k) == IF k < 10 THEN "0" \o ToString(k) ELSE ToString(k)

\* `${decayTime.toFixed(2)}s`
FormatDecay(decayTime) ==
    LET cs == DivRound(decayTime, 10)
    IN ToString(cs \div 100) \o "." \o TwoDigits(cs % 100) \o "s"

\* channelData.length === 0
IsEmptyNever(channelData) == FALSE
IsEmpty(channelData) == Length(channelData) = 0

AllStages == <<"getMonoData", "normalize", "computeRMS",
               "computeSpectralFeatures", "computeEnvelopeFeatures",
               "classify">>

\* steps 2 to 6 of analyzeAudioBuffer on the mono data
Assemble(b, channelData, profile) ==
    LET sr == b.sampleRate
        normalized == normalize(channelData)
        rmsEnergy == computeRMS(normalized)
        sf == computeSpectralFeatures(normalized, sr, profile)
        ef == computeEnvelopeFeatures(normalized, sr)
        classification == classify(ef.peakCount, ef.decayTime, sf.centroid,
                                   ef.turbulence, sf.bands)
    IN [res |->
          [classification |-> classification,
           analysis_data |->
             [file_meta |-> [output_wav_path |-> "",
                             duration_seconds |-> b.duration],
              musical_features |->
                [rms_energy |-> rmsEnergy,
                 brightness_spectral_centroid |-> sf.centroid,
                 texture_spectral_flatness |-> sf.flatness,
                 peak_count |-> ef.peakCount,
                 estimated_decay_time |-> FormatDecay(ef.decayTime)],
              vectors |-> [amplitude_envelope |-> ef.envelopeVector,
                           frequency_bands_db |-> sf.bands]]],
        probe |->
          [stages |-> AllStages,
           samples |-> Length(channelData),
           silent |-> MaxAbs(channelData) = 0,
           spectralFrames |-> sf.frameCount,
           rmsEnvelope |-> ef.rmsEnvelope,
           distanceFrames |-> ef.distanceFrames,
           accepted |-> ef.accepted,
           lastHighFrame |-> ef.lastHighFrame,
           decayTime |-> ef.decayTime,
           turbulence |-> ef.turbulence]]

-----------------------------------------------------------------------------
(* The buffers handed to analyzeAudioBuffer *)

Levels == 0..Amp
RaggedLens == {1, HopLength - 1}
SampleRates == {8000, 22050}

\* one run of HopLength samples per value, the last run of lastLen samples
BlockWave(vals, lastLen) ==
    [i \in 1..Len(vals) |->
        [pat |-> <<vals[i]>>,
         n |-> IF i = Len(vals) THEN lastLen ELSE HopLength]]

\* every waveform of at most maxCells runs of HopLength samples, and the
\* constant waveforms whose last run is cut short
BlockWaves(maxCells) ==
    {<<>>}
    \cup { BlockWave(v, HopLength) :
             v \in UNION { [1..k -> Levels] : k \in 1..maxCells } }
    \cup { BlockWave([i \in 1..k |-> v], l) :
             k \in 1..maxCells, v \in Levels, l \in RaggedLens }

Negate(w) ==
    [i \in 1..Len(w) |->
        [pat |-> [k \in 1..Len(w[i].pat) |-> -w[i].pat[k]], n |-> w[i].n]]

Buffer(chs, sr) ==
    [numberOfChannels |-> Len(chs), channels |-> chs, sampleRate |-> sr,
     duration |-> (Length(chs[1]) * 1000) \div sr]

\* sin(2 pi i / P) in 1/100 for P = 4 (at amplitude 1 and 0.5), 8 and 3
Sine4 == <<0, 100, 0, -100>>
Sine4Half == <<0, 50, 0, -50>>
Sine8 == <<0, 71, 100, 71, 0, -71, -100, -71>>
Sine3 == <<0, 87, -87>>
SineLengths == {4096, 44100}

SineBuffers(pats) ==
    { Buffer(<< <<[pat |-> p, n |-> n]>> >>, 44100) :
        p \in pats, n \in SineLengths }

\* 2 s at 44100 Hz: pulses of 100 samples at 0, 22050 and 44100 with
\* amplitudes 1.0, 0.6 and 0.3
ThreePulses ==
    Buffer(<< << [pat |-> <<100>>, n |-> 100], [pat |-> <<0>>, n |-> 21950],
                 [pat |-> <<60>>, n |-> 100], [pat |-> <<0>>, n |-> 21950],
                 [pat |-> <<30>>, n |-> 100], [pat |-> <<0>>, n |-> 44000] >> >>,
           44100)

MonoBuffers == { Buffer(<<w>>, sr) : w \in BlockWaves(MaxCells), sr \in SampleRates }

StereoBuffers ==
    UNION { { Buffer(<<w, w>>, sr), Buffer(<<w, Negate(w)>>, sr) } :
            w \in BlockWaves(StereoCells), sr \in SampleRates }

Buffers ==
    MonoBuffers \cup StereoBuffers \cup {ThreePulses}
    \cup SineBuffers({Sine4, Sine4Half, Sine8, Sine3})

-----------------------------------------------------------------------------
(* The analysis of one decoded buffer *)

Init ==
    /\ pc = "idle"
    /\ buffer = NoBuffer
    /\ result = NoResult
    /\ thrown = None
    /\ payload = NoPayload
    /\ probe = NoProbe
    /\ call = NoCall
    /\ ret = NoRet

\* decodeAudio resolves with a buffer (analyzeFile), or a caller builds one
Decode ==
    /\ pc = "idle"
    /\ \E b \in Buffers : buffer' = b
    /\ pc' = "decoded"
    /\ UNCHANGED <<result, thrown, payload, probe, call, ret>>

AnalyzeThrows ==
    /\ pc = "decoded"
    /\ IsEmpty(getMonoData(buffer))
    /\ thrown' = EmptyError
    /\ probe' = [stages |-> <<"getMonoData">>]
    /\ pc' = "failed"
    /\ UNCHANGED <<buffer, result, payload, call, ret>>

AnalyzeReturns ==
    /\ pc = "decoded"
    /\ LET channelData == getMonoData(buffer)
       IN /\ ~IsEmpty(channelData)
          /\ \E profile \in
                SpectrumProfiles(normalize(channelData),
                                 SpectralFrames(Length(channelData))) :
               LET a == Assemble(buffer, channelData, profile)
               IN result' = a.res /\ probe' = a.probe
    /\ pc' = "analyzed"
    /\ UNCHANGED <<buffer, thrown, payload, call, ret>>

analyzeAudioBuffer == AnalyzeThrows \/ AnalyzeReturns

Next == Decode \/ analyzeAudioBuffer

Spec == Init /\ [][Next]_vars

-----------------------------------------------------------------------------
(* transformer.ts: transformToImpulseResponse *)

BRANDS == <<"Roland", "Yamaha", "Korg", "Lexicon", "Bricasti", "Eventide",
            "TC Electronic", "Sony", "Fender", "Marshall">>

\* File names are sequences of words joined by sep, with an extension; the
\* words hold no "/", ".", "_" or white space
Words == {"Roland", "SE-50", "Hall", "MyCoolSpace", "PCM70", "SPX90",
          "TC", "Electronic", "lexicon"}

\* toLowerCase and the `i` flag, on the words above and on the brands
Lower(w) ==
    CASE w = "Roland" -> "roland"
      [] w = "SE-50" -> "se-50"
      [] w = "Hall" -> "hall"
      [] w = "MyCoolSpace" -> "mycoolspace"
      [] w = "PCM70" -> "pcm70"
      [] w = "SPX90" -> "spx90"
      [] w = "TC" -> "tc"
      [] w = "Electronic" -> "electronic"
      [] w = "Yamaha" -> "yamaha"
      [] w = "Korg" -> "korg"
      [] w = "Lexicon" -> "lexicon"
      [] w = "Bricasti" -> "bricasti"
      [] w = "Eventide" -> "eventide"
      [] w = "Sony" -> "sony"
      [] w = "Fender" -> "fender"
      [] w = "Marshall" -> "marshall"
      [] OTHER -> w

\* the words of a brand name
BrandWords(brand) ==
    IF brand = "TC Electronic" THEN <<"tc", "electronic">>
    ELSE <<Lower(brand)>>

\* /pattern/i.test(word) for the patterns SE-50, PCM and SPX
WordHas(w, pattern) ==
    \/ pattern = "SE-50" /\ Lower(w) = "se-50"
    \/ pattern = "PCM" /\ Lower(w) = "pcm70"
    \/ pattern = "SPX" /\ Lower(w) = "spx90"

RECURSIVE Join(_, _)
Join(words, sep) ==
    IF words = <<>> THEN ""
    ELSE IF Len(words) = 1 THEN words[1]
    ELSE words[1] \o sep \o Join(Tail(words), sep)

\* the string of a path
PathString(path) == path.dir \o Join(path.words, path.sep) \o path.ext

\* split('/').pop(), the extension removed, "_" replaced by " "
InferName(path) == Join(path.words, " ")

\* new RegExp(`\\b${brand}\\b`, 'i').test(name)
BrandIn(brand, words) ==
    LET bw == BrandWords(brand)
    IN \E i \in 1..(Len(words) - Len(bw) + 1) :
          \A k \in 1..Len(bw) : Lower(words[i + k - 1]) = bw[k]

Null == "null"

guessSourceInfo(words) ==
    LET found == { b \in 1..Len(BRANDS) : BrandIn(BRANDS[b], words) }
    IN IF found # {}
       THEN LET manufacturer == BRANDS[CHOOSE b \in found :
                                          \A c \in found : b <= c]
                at == { i \in 1..Len(words) :
                          Lower(words[i]) = Lower(manufacturer) }
                brandIdx == IF at = {} THEN 0
                            ELSE CHOOSE i \in at : \A j \in at : i <= j
            IN [manufacturer |-> manufacturer,
                model |-> IF brandIdx # 0 /\ brandIdx + 1 <= Len(words)
                          THEN words[brandIdx + 1] ELSE Null,
                sourceType |-> "Device"]
       ELSE IF \E i \in 1..Len(words) : WordHas(words[i], "SE-50")
       THEN [manufacturer |-> "Roland", model |-> "SE-50",
             sourceType |-> "Device"]
       ELSE IF \E i \in 1..Len(words) : WordHas(words[i], "PCM")
       THEN [manufacturer |-> "Lexicon", model |-> Null,
             sourceType |-> "Device"]
       ELSE IF \E i \in 1..Len(words) : WordHas(words[i], "SPX")
       THEN [manufacturer |-> "Yamaha", model |-> Null,
             sourceType |-> "Device"]
       ELSE [manufacturer |-> Null, model |-> Null, sourceType |-> "Device"]

\* JSON.stringify
Stringify(v) == [json |-> v]

\* the label written to type and space_type
TypeLabel(classification) == classification.type

\* the payload, for a result whose file_meta has an original_path
transformToImpulseResponse(res, extra) ==
    LET file_meta == res.analysis_data.file_meta
        path == file_meta.original_path
        musical_features == res.analysis_data.musical_features
        vectors == res.analysis_data.vectors
        classification == res.classification
        name == InferName(path)
        src == guessSourceInfo(path.words)
    IN [created_at |-> extra.created_at,
        name |-> name,
        type |-> TypeLabel(classification),
        duration_category |-> classification.duration_category,
        brightness_category |-> classification.brightness_category,
        texture_category |-> classification.texture_category,
        source_type |-> src.sourceType,
        source_location |-> Null,
        source_architecture |-> Null,
        source_manufacturer |-> src.manufacturer,
        source_model |-> src.model,
        space_type |-> TypeLabel(classification),
        space_duration_category |-> classification.duration_category,
        space_brightness_category |-> classification.brightness_category,
        space_texture_category |-> classification.texture_category,
        space_size |-> Null,
        duration_seconds |-> file_meta.duration_seconds,
        rms_energy |-> musical_features.rms_energy,
        brightness_spectral_centroid |->
            musical_features.brightness_spectral_centroid,
        texture_spectral_flatness |->
            musical_features.texture_spectral_flatness,
        peak_count |-> musical_features.peak_count,
        estimated_decay_time |-> musical_features.estimated_decay_time,
        amplitude_envelope |-> Stringify(vectors.amplitude_envelope),
        frequency_bands_db |-> Stringify(vectors.frequency_bands_db),
        wav_file_url |-> extra.wav_file_url,
        original_path |-> PathString(path)]

-----------------------------------------------------------------------------
(* classify on its own *)

DecayTimes == {0, 250, 499, 500, 1000, 1499, 1500, 5000}
Centroids == {50, 300, 600, 1000, 7000}
Turbulences == {0, 299, 300, 399, 400, 499, 500, 599, 600, 2000}
BandLevels == {-100, -40, -20, 0}

BandChoices ==
    {NoBands} \cup
    { [l \in {"0-100hz", "500-2000hz"} |->
          IF l = "0-100hz" THEN sub ELSE mid] :
        sub \in BandLevels, mid \in BandLevels }

ClassifyCalls ==
    { [op |-> "classify", peakCount |-> p, decayTime |-> d, centroid |-> c,
       turbulence |-> t, bands |-> b] :
        p \in 0..MaxPeaks, d \in DecayTimes, c \in Centroids,
        t \in Turbulences, b \in BandChoices }

Called(calls) ==
    /\ pc = "called"
    /\ call \in calls
    /\ buffer = NoBuffer
    /\ result = NoResult
    /\ thrown = None
    /\ payload = NoPayload
    /\ probe = NoProbe
    /\ ret = NoRet

InitClassify == Called(ClassifyCalls)

ClassifyCall ==
    /\ pc = "called"
    /\ call.op = "classify"
    /\ ret' = classify(call.peakCount, call.decayTime, call.centroid,
                       call.turbulence, call.bands)
    /\ pc' = "returned"
    /\ UNCHANGED <<buffer, result, thrown, payload, probe, call>>

NextClassify == ClassifyCall

SpecClassify == InitClassify /\ [][NextClassify]_vars

-----------------------------------------------------------------------------
(* resampleArray on its own, next to the analysis that calls it *)

EnvelopeValues == {0, 250, 1000}

ResampleCalls ==
    { [op |-> "resampleArray", input |-> in, targetLength |-> L] :
        in \in UNION { [1..k -> EnvelopeValues] : k \in 0..MaxLen },
        L \in 0..MaxTarget }

InitResample == Called(ResampleCalls) \/ Init

ResampleCall ==
    /\ pc = "called"
    /\ call.op = "resampleArray"
    /\ ret' = resampleArray(call.input, call.targetLength)
    /\ pc' = "returned"
    /\ UNCHANGED <<buffer, result, thrown, payload, probe, call>>

NextResample == ResampleCall \/ Decode \/ analyzeAudioBuffer

SpecResample == InitResample /\ [][NextResample]_vars

-----------------------------------------------------------------------------
(* transformToImpulseResponse on the results a caller hands to it *)

Path(dir, words, sep, ext) ==
    [dir |-> dir, words |-> words, sep |-> sep, ext |-> ext]

Paths ==
    { Path("/path/to/", <<"Roland", "SE-50", "Hall">>, " ", ".wav"),
      Path("", <<"MyCoolSpace">>, " ", ".wav"),
      Path("", <<"Hall", "SE-50">>, "_", ".wav"),
      Path("", <<"PCM70", "Hall">>, "_", ".wav"),
      Path("", <<"SPX90">>, " ", ""),
      Path("ir/", <<"TC", "Electronic", "Hall">>, " ", ".wav"),
      Path("ir/", <<"Hall", "lexicon">>, "_", ".wav"),
      Path("ir/", <<>>, " ", "") }

Undefined == "undefined"

Extras ==
    { [wav_file_url |-> "impulse-responses/123.wav", created_at |-> "2025-01-01"],
      [wav_file_url |-> "foo", created_at |-> Undefined] }

Features(p, d, c) ==
    [rms_energy |-> 500, brightness_spectral_centroid |-> c,
     texture_spectral_flatness |-> 100, peak_count |-> p,
     estimated_decay_time |-> FormatDecay(d)]

MockVectors ==
    [amplitude_envelope |-> <<100, 200, 300>>,
     frequency_bands_db |-> [l \in {"0-100hz"} |-> -30]]

\* the results of analyzeAudioBuffer carry no original_path; a caller may
\* add one
FileMetas ==
    { [output_wav_path |-> "", duration_seconds |-> 10000] }
    \cup { [original_path |-> path, output_wav_path |-> "",
            duration_seconds |-> 10000] : path \in Paths }

TransformCalls ==
    { [op |-> "transformToImpulseResponse",
       result |->
         [classification |-> classify(p, d, c, t, MockVectors.frequency_bands_db),
          analysis_data |-> [file_meta |-> fm,
                             musical_features |-> Features(p, d, c),
                             vectors |-> MockVectors]],
       extra |-> e] :
        p \in {0, 3}, d \in {0, 1000, 2000, 6000}, c \in {600, 3000},
        t \in {0, 700}, fm \in FileMetas, e \in Extras }

InitTransform == Called(TransformCalls)

HasPath(res) == "original_path" \in DOMAIN res.analysis_data.file_meta

\* file_meta.original_path.split on undefined
TransformThrows ==
    /\ pc = "called"
    /\ call.op = "transformToImpulseResponse"
    /\ ~HasPath(call.result)
    /\ thrown' = "TypeError"
    /\ pc' = "failed"
    /\ UNCHANGED <<buffer, result, payload, probe, call, ret>>

TransformReturns ==
    /\ pc = "called"
    /\ call.op = "transformToImpulseResponse"
    /\ HasPath(call.result)
    /\ payload' = transformToImpulseResponse(call.result, call.extra)
    /\ pc' = "returned"
    /\ UNCHANGED <<buffer, result, thrown, probe, call, ret>>

NextTransform == TransformThrows \/ TransformReturns

SpecTransform == InitTransform /\ [][NextTransform]_vars

-----------------------------------------------------------------------------
(* One iteration of the peak scan of computeEnvelopeFeatures, on the loop
   state the earlier iterations leave *)

\* envelope values on both sides of finalThreshold and of the prominence
\* bound, in 1/1000
EnvLevels == {0, 40, 100, 140, 1000}

ScanCalls ==
    { c \in { [op |-> "PeakStep", rmsEnvelope |-> e, sr |-> sr, i |-> i] :
                e \in UNION { [1..k -> EnvLevels] : k \in 3..MaxFrames },
                sr \in SampleRates, i \in 1..(MaxFrames - 2) } :
        c.i < Len(c.rmsEnvelope) - 1 }

\* peaks, lastPeakIdx, minSinceLastPeak when iteration i is about to run
ScanBefore(rmsEnvelope, sr, i) ==
    LET maxVal == MaxOf(rmsEnvelope)
        thr == FinalThreshold(maxVal)
        d == DistanceFrames(sr)
    IN ScanRange(rmsEnvelope, 1, i, PeakInit(rmsEnvelope, maxVal, thr, d),
                 thr, d)

InitScan == Called(ScanCalls)

ScanCall ==
    /\ pc = "called"
    /\ call.op = "PeakStep"
    /\ LET before == ScanBefore(call.rmsEnvelope, call.sr, call.i)
           thr == FinalThreshold(MaxOf(call.rmsEnvelope))
       IN ret' = [before |-> before,
                  after |-> PeakStep(call.rmsEnvelope, call.i, before, thr,
                                     DistanceFrames(call.sr)),
                  finalThreshold |-> thr]
    /\ pc' = "returned"
    /\ UNCHANGED <<buffer, result, thrown, payload, probe, call>>

NextScan == ScanCall

SpecScan == InitScan /\ [][NextScan]_vars

-----------------------------------------------------------------------------
(* computeTurbulence on an envelope and an end frame *)

\* envelope values at -100 dB, -20 dB and 0 dB, in 1/1000
TurbulenceLevels == {0, 100, 1000}

TurbulenceCalls ==
    { c \in { [op |-> "computeTurbulence", envelope |-> e,
               endFrameIdx |-> end] :
                e \in UNION { [1..k -> TurbulenceLevels] : k \in 0..MaxEnvelope },
                end \in 0..MaxEnvelope } :
        c.endFrameIdx <= Len(c.envelope) }

InitTurbulence == Called(TurbulenceCalls)

TurbulenceCall ==
    /\ pc = "called"
    /\ call.op = "computeTurbulence"
    /\ LET dbEnv == [k \in 1..Len(call.envelope) |-> ToDb(call.envelope[k])]
       IN ret' = [turbulence |->
                      computeTurbulence(call.envelope, call.endFrameIdx),
                  decaySlice |->
                      DecaySlice(dbEnv, PeakIdx(dbEnv), call.endFrameIdx)]
    /\ pc' = "returned"
    /\ UNCHANGED <<buffer, result, thrown, payload, probe, call>>

NextTurbulence == TurbulenceCall

SpecTurbulence == InitTurbulence /\ [][NextTurbulence]_vars

-----------------------------------------------------------------------------
(* fft(real, imag): the checks and the in-place transform *)

\* a & b on two's-complement integers
RECURSIVE BitAnd(_, _)
BitAnd(a, b) ==
    IF a = 0 \/ b = 0 THEN 0
    ELSE IF a = -1 THEN b
    ELSE IF b = -1 THEN a
    ELSE 2 * BitAnd(a \div 2, b \div 2) + (a % 2) * (b % 2)

LengthError == "Real and Imag arrays must be same length"
SizeError == "Size must be power of 2"

\* n !== imag.length
LengthsDiffer(real, imag) == Len(real) # Len(imag)

\* (n & (n - 1)) !== 0
SizeRejected(n) == BitAnd(n, n - 1) # 0

\* while (k <= j) { j -= k; k >>= 1 }  j += k
RECURSIVE NextJ(_, _)
NextJ(j, k) == IF k <= j THEN NextJ(j - k, k \div 2) ELSE j + k

Swap(seq, i, j) == [seq EXCEPT ![i + 1] = seq[j + 1], ![j + 1] = seq[i + 1]]

\* the iterations i, i + 1, ..., n - 2 of the bit-reverse copy
RECURSIVE BitReverse(_, _, _, _)
BitReverse(a, i, j, n) ==
    IF i >= n - 1 THEN a
    ELSE BitReverse(IF i < j
                    THEN [real |-> Swap(a.real, i, j), imag |-> Swap(a.imag, i, j)]
                    ELSE a,
                    i + 1, NextJ(j, n \div 2), n)

\* (wReal, wImag) in iteration i of a stage: exp(-i pi i / step), which is
\* 1 for i = 0 and -i for step = 2, i = 1 (up to the rounding of the
\* recurrence); the longer stages have no integer values and are not reached
\* for n <= 4
Twiddle(step, i) ==
    CASE i = 0 -> [re |-> 1, im |-> 0]
      [] step = 2 /\ i = 1 -> [re |-> 0, im |-> -1]

\* one butterfly on the entries k and index = k + step
Butterfly(a, k, index, w) ==
    LET tempReal == w.re * a.real[index + 1] - w.im * a.imag[index + 1]
        tempImag == w.re * a.imag[index + 1] + w.im * a.real[index + 1]
    IN [real |-> [a.real EXCEPT ![index + 1] = a.real[k + 1] - tempReal,
                                ![k + 1] = a.real[k + 1] + tempReal],
        imag |-> [a.imag EXCEPT ![index + 1] = a.imag[k + 1] - tempImag,
                                ![k + 1] = a.imag[k + 1] + tempImag]]

\* for (k = i; k < n; k += jump)
RECURSIVE ButterflyRow(_, _, _, _, _)
ButterflyRow(a, k, n, step, w) ==
    IF k >= n THEN a
    ELSE ButterflyRow(Butterfly(a, k, k + step, w), k + 2 * step, n, step, w)

\* for (i = 0; i < step; i++)
RECURSIVE Stage(_, _, _, _)
Stage(a, i, n, step) ==
    IF i >= step THEN a
    ELSE Stage(ButterflyRow(a, i, n, step, Twiddle(step, i)), i + 1, n, step)

\* while (step < n) { ...; step = jump }
RECURSIVE Stages(_, _, _)
Stages(a, step, n) ==
    IF step >= n THEN a ELSE Stages(Stage(a, 0, n, step), 2 * step, n)

\* real and imag after a call that passes the checks
fft(real, imag) ==
    LET n == Len(real)
    IN Stages(BitReverse([real |-> real, imag |-> imag], 0, 0, n), 1, n)

FftValues == {0, 1}

FftArrays == UNION { [1..k -> FftValues] : k \in 0..MaxFft }

FftCalls ==
    { [op |-> "fft", real |-> re, imag |-> im] :
        re \in FftArrays, im \in FftArrays }

InitFft == Called(FftCalls)

\* ret holds the two arrays as the call leaves them
FftThrows ==
    /\ pc = "called"
    /\ call.op = "fft"
    /\ LengthsDiffer(call.real, call.imag) \/ SizeRejected(Len(call.real))
    /\ thrown' = IF LengthsDiffer(call.real, call.imag)
                 THEN LengthError ELSE SizeError
    /\ ret' = [real |-> call.real, imag |-> call.imag]
    /\ pc' = "failed"
    /\ UNCHANGED <<buffer, result, payload, probe, call>>

FftReturns ==
    /\ pc = "called"
    /\ call.op = "fft"
    /\ ~LengthsDiffer(call.real, call.imag)
    /\ ~SizeRejected(Len(call.real))
    /\ ret' = fft(call.real, call.imag)
    /\ pc' = "returned"
    /\ UNCHANGED <<buffer, result, thrown, payload, probe, call>>

NextFft == FftThrows \/ FftReturns

SpecFft == InitFft /\ [][NextFft]_vars

-----------------------------------------------------------------------------
(* Properties *)

Features_ == result.analysis_data.musical_features
Vectors_ == result.analysis_data.vectors

SilentBuffer(b) == \A c \in 1..Len(b.channels) : MaxAbs(b.channels[c]) = 0

\* C1: analyzeAudioBuffer on a waveform with zero samples throws 'Audio
\* buffer is empty', returns no result, and none of normalize, the feature
\* extraction and classify has run.
C1_EmptyBufferThrows ==
    (pc \in {"analyzed", "failed"} /\ Length(getMonoData(buffer)) = 0)
    => /\ pc = "failed"
       /\ thrown = EmptyError
       /\ result = NoResult
       /\ probe.stages = <<"getMonoData">>

C1_Witness ==
    /\ pc = "failed"
    /\ thrown = EmptyError
    /\ Length(buffer.channels[1]) = 0

\* C2: a non-empty waveform whose samples are all 0, of any length (also
\* shorter than one frame) and sample rate, is analysed to rms_energy 0,
\* peak_count 0 and type Reverb.
C2_SilenceIsReverb ==
    (pc \in {"analyzed", "failed"} /\ SilentBuffer(buffer)
       /\ Length(buffer.channels[1]) > 0)
    => /\ pc = "analyzed"
       /\ Features_.rms_energy = 0
       /\ Features_.peak_count = 0
       /\ result.classification.type = "Reverb"

C2_Witness ==
    /\ pc = "analyzed"
    /\ SilentBuffer(buffer)
    /\ probe.samples < FrameLength
    /\ Features_.peak_count = 0
    /\ result.classification.type = "Reverb"

\* C3: any two peaks accepted by the peak scan, the one of the first-frame
\* rule included, lie at least distanceFrames frames apart.
C3_PeakSpacing ==
    pc = "analyzed"
    => \A i, j \in 1..Len(probe.accepted) :
          i < j => probe.accepted[j] - probe.accepted[i] >= probe.distanceFrames

C3_Witness ==
    /\ pc = "analyzed"
    /\ Len(probe.accepted) >= 2
    /\ probe.accepted[1] = 0
    /\ probe.distanceFrames >= 3

DelayLabels == {"Delay", "Echo", "Echo/Delay"}

FiveBands == {"0-100hz", "100-500hz", "500-2000hz", "2000-5000hz",
              "5000-20000hz"}

C7_ResampleLength ==
    /\ (pc = "returned" /\ call.op = "resampleArray")
       => /\ Len(ret) = call.targetLength
          /\ Len(call.input) = call.targetLength => ret = call.input
          /\ call.input = <<>> => \A i \in 1..call.targetLength : ret[i] = 0
    /\ pc = "analyzed" => Len(Vectors_.amplitude_envelope) = 500

C7_Witness ==
    /\ pc = "returned"
    /\ call.op = "resampleArray"
    /\ call.input = <<>>
    /\ call.targetLength = MaxTarget
    /\ ret = [i \in 1..MaxTarget |-> 0]

Near707(rms) == rms >= 702 /\ rms <= 712

C10_PayloadEchoDelay ==
    (pc = "returned" /\ call.op = "transformToImpulseResponse"
       /\ call.result.classification.type = "Delay")
    => /\ payload.type = "Echo/Delay"
       /\ payload.space_type = "Echo/Delay"

\* C11: computeSpectralFeatures processes one frame per start index i = 0,
\* 512, ... with i + 2048 <= N: floor((N - 2048) / 512) + 1 frames for
\* N >= 2048, as many as the RMS envelope has, and the zero-frame result
\* (centroid 0, flatness 0, no bands) only for N < 2048.
C11_SpectralFrames ==
    pc = "analyzed"
    => LET N == probe.samples
       IN /\ probe.spectralFrames =
                IF N >= NFft THEN (N - NFft) \div HopLength + 1 ELSE 0
          /\ probe.spectralFrames = Len(probe.rmsEnvelope)
          /\ DOMAIN Vectors_.frequency_bands_db = {} => N < NFft

\* the normalized mono data is a sequence of constant runs of HopLength
\* samples (the last one possibly shorter)
IsBlockData(data) ==
    \A c \in 1..Len(data) :
        Len(data[c].pat) = 1 /\ (c < Len(data) => data[c].n = HopLength)

\* the RMS of the FrameLength samples that start at sample HopLength * i of
\* block data: four whole runs
BlockFrameRms(data, i) ==
    LET sq(c) == data[c].pat[1] * data[c].pat[1]
    IN Sqrt(MeanSq(HopLength * (sq(i + 1) + sq(i + 2) + sq(i + 3) + sq(i + 4)),
                   FrameLength))

\* C12: the RMS envelope of N samples has floor((N - 2048) / 512) + 1 frames
\* for N >= 2048 and none for N < 2048; frame i is the RMS of the samples
\* [512 i, 512 i + 2048), which all lie inside the waveform.
C12_EnvelopeFrames ==
    pc = "analyzed"
    => LET N == probe.samples
           frames == Len(probe.rmsEnvelope)
           data == normalize(getMonoData(buffer))
       IN /\ frames = IF N >= FrameLength
                      THEN (N - FrameLength) \div HopLength + 1 ELSE 0
          /\ \A i \in 0..(frames - 1) : HopLength * i + FrameLength <= N
          /\ IsBlockData(data)
             => \A i \in 0..(frames - 1) :
                   probe.rmsEnvelope[i + 1] = BlockFrameRms(data, i)

C12_Witness ==
    /\ pc = "analyzed"
    /\ probe.samples = MaxCells * HopLength
    /\ Len(probe.rmsEnvelope) = MaxCells - 3
    /\ IsBlockData(normalize(getMonoData(buffer)))
    /\ probe.rmsEnvelope[1] > 0
    /\ probe.rmsEnvelope[1] # probe.rmsEnvelope[2]

\* the smallest of env[lo + 1], ..., env[hi + 1] (frames lo..hi)
MinOver(env, lo, hi) ==
    CHOOSE m \in { env[k + 1] : k \in lo..hi } :
        \A k \in lo..hi : m <= env[k + 1]

\* C13: a peak accepted at an interior frame i is strictly above
\* finalThreshold = max(5% of the envelope maximum, 0.0001) and strictly above
\* 1.55 m + 0.001, m being the least envelope value over the frames from the
\* last accepted peak (frame 0 when there is none) up to i; an iteration that
\* accepts nothing leaves the peak count and the last peak index as they
\* were, and the valley is the running minimum, not reset to the frame.
C13_InteriorPeaks ==
    (pc = "returned" /\ call.op = "PeakStep")
    => LET env == call.rmsEnvelope
           v == env[call.i + 1]
           b == ret.before
           a == ret.after
           last == IF b.peaks = 0 THEN 0 ELSE b.lastPeakIdx
           m == MinOver(env, last, call.i)
           maxVal == MinOver([k \in 1..Len(env) |-> -env[k]], 0, Len(env) - 1)
           floorOr5Percent == IF -maxVal * 5 > 10 THEN -maxVal * 5 ELSE 10
       IN /\ a.peaks \in {b.peaks, b.peaks + 1}
          /\ a.peaks = b.peaks + 1
             => /\ v * 100 > floorOr5Percent
                /\ v * 1000 > 1550 * m + 1000
                /\ a.lastPeakIdx = call.i
                /\ a.minSinceLastPeak = v
          /\ a.peaks = b.peaks
             => /\ a.lastPeakIdx = b.lastPeakIdx
                /\ a.accepted = b.accepted
                /\ a.minSinceLastPeak = m

\* a local maximum above the threshold is turned down for its prominence
\* alone, after a peak at frame 0
C13_Witness ==
    /\ pc = "returned"
    /\ call.op = "PeakStep"
    /\ ret.before.peaks = 1
    /\ ret.after.peaks = 1
    /\ call.i >= DistanceFrames(call.sr)
    /\ call.rmsEnvelope[call.i + 1] = 140
    /\ call.rmsEnvelope[call.i] = 100
    /\ call.rmsEnvelope[call.i + 2] < 140
    /\ ret.after.minSinceLastPeak = 100

\* C14: the decay end frame is the largest frame index whose envelope value
\* is strictly greater than 0.001 times the envelope maximum, and 0 when no
\* frame qualifies (an all-zero or empty envelope); the decay time is that
\* index * 512 / sampleRate.
C14_DecayEnd ==
    pc = "analyzed"
    => LET env == probe.rmsEnvelope
           high == { i \in 0..(Len(env) - 1) :
                       \A k \in 1..Len(env) : env[i + 1] * 1000 > env[k] }
           l == probe.lastHighFrame
       IN /\ high = {} => l = 0 /\ probe.decayTime = 0
          /\ high # {} => l \in high /\ \A j \in high : j <= l
          /\ probe.decayTime = (l * 512 * 1000) \div buffer.sampleRate

C14_Witness ==
    /\ pc = "analyzed"
    /\ probe.lastHighFrame >= 1
    /\ probe.lastHighFrame < Len(probe.rmsEnvelope) - 1
    /\ probe.rmsEnvelope[Len(probe.rmsEnvelope)] = 0
    /\ probe.decayTime > 0

\* the first index of the largest value of env, 0 for an empty env
FirstMaxIndex(env) ==
    IF env = <<>> THEN 0
    ELSE CHOOSE i \in 0..(Len(env) - 1) :
            /\ \A k \in 1..Len(env) : env[k] <= env[i + 1]
            /\ \A k \in 1..i : env[k] < env[i + 1]

BandOrMissing(bands, key) == IF key \in DOMAIN bands THEN bands[key] ELSE -100

\* C16: the brightness adjustment of classify uses the values of the bands
\* '0-100hz' and '500-2000hz', -100 dB standing in only for an absent band:
\* Low becomes Very Low when sub > mid + 12, Very Low becomes Sub when
\* sub > mid + 24, and a centroid of 800 Hz or more is never adjusted.
C16_BrightnessAdjustment ==
    (pc = "returned" /\ call.op = "classify")
    => LET sub == BandOrMissing(call.bands, "0-100hz")
           mid == BandOrMissing(call.bands, "500-2000hz")
           byCentroid == CentroidBrightness(call.centroid)
           demoted == IF byCentroid = "Low" /\ sub > mid + 12
                      THEN "Very Low" ELSE byCentroid
       IN /\ ret.brightness_category =
                IF demoted = "Very Low" /\ sub > mid + 24
                THEN "Sub" ELSE demoted
          /\ call.centroid >= 800 => ret.brightness_category = byCentroid

IsPowerOfTwo(n) == \E k \in 0..n : Pow2(k) = n

\* C18: fft(real, imag) throws for arrays of different lengths and for every
\* length N >= 0 that is not a power of two, leaving both arrays as they
\* were.
C18_FftRejects ==
    (pc \in {"returned", "failed"} /\ call.op = "fft"
       /\ (Len(call.real) # Len(call.imag) \/ ~IsPowerOfTwo(Len(call.real))))
    => /\ pc = "failed"
       /\ thrown \in {LengthError, SizeError}
       /\ ret.real = call.real
       /\ ret.imag = call.imag

\* C19: every accepted peak lies at a frame no later than the decay end
\* frame; so a decay time of 0 goes with at most one peak and type Reverb,
\* and a Delay always has a positive decay time.
C19_PeaksBeforeDecayEnd ==
    pc = "analyzed"
    => /\ \A k \in 1..Len(probe.accepted) :
             probe.accepted[k] <= probe.lastHighFrame
       /\ Features_.peak_count = Len(probe.accepted)
       /\ probe.decayTime = 0
          => /\ Features_.peak_count <= 1
             /\ result.classification.type = "Reverb"
       /\ result.classification.type = "Delay" => probe.decayTime > 0

C19_Witness ==
    /\ pc = "analyzed"
    /\ Len(probe.rmsEnvelope) >= 3
    /\ probe.accepted = <<0>>
    /\ probe.lastHighFrame = 0
    /\ probe.decayTime = 0
    /\ result.classification.type = "Reverb"

====
